---- MODULE Spec2Model ----
(***************************************************************************)
(* The pool dispatcher (Queue) of appleboy/queue together with the         *)
(* in-memory worker (Consumer).                                            *)
(*                                                                         *)
(* Every goroutine of the program is a process of the model: the caller    *)
(* of Queue/QueueTask (the producer), the callers of Shutdown/Release,     *)
(* each dispatcher loop Queue.start, its fetch goroutine, each execution   *)
(* goroutine Queue.work with the Consumer.handle call it makes, the task   *)
(* goroutine handle spawns and the job's deadline timer.  A step of the    *)
(* model is one access to shared state (an atomic, a channel operation, a  *)
(* mutex section); statements that touch only goroutine-local state are    *)
(* folded into the shared access that follows them.                        *)
(***************************************************************************)
EXTENDS Naturals, Sequences, FiniteSets

\* Bounds of the model.
MaxSubmits == 2      \* Queue/QueueTask calls the producer makes before a shutdown
MaxStarts == 1       \* Start calls
MaxShutdowns == 2    \* concurrent callers of Shutdown/Release
MaxWorkers == 1      \* largest worker count (WithWorkerCount)
MaxCapacity == 2     \* largest buffer size (WithQueueSize)

MaxUpdates == 1      \* UpdateWorkerCount calls

\* UpdateWorkerCount may raise the count above the one the pool was built
\* with.
ScaleWorkers == MaxWorkers + 1

\* A pool that is never shut down is driven by one more call.
RunSubmits == MaxSubmits + 1

\* Start calls, those that launch no dispatcher included.
MaxStartCalls == MaxStarts + 1

Msgs == 1..RunSubmits
Disps == 1..MaxStarts

\* The dispatcher loops of a pool on which Start is called once more.
MultiDisps == 1..MaxStartCalls
Callers == 1..MaxShutdowns

VARIABLES
    \* Queue (the pool)
    workerCount,     \* q.workerCount
    busy,            \* q.metric busy gauge
    success,         \* q.metric success counter
    failure,         \* q.metric failure counter
    submitted,       \* q.metric submitted counter
    stopFlag,        \* q.stopFlag
    stopOnce,        \* q.stopOnce: "fresh", "running", "done"
    quit,            \* number of close(q.quit) executed; closed iff > 0
    ready,           \* number of tokens in q.ready (capacity 1)
    \* Queue.Start / Queue.start
    starts,          \* number of Start calls made
    dpc,             \* dispatcher loop d: position in Queue.start
    fpc,             \* fetch goroutine of dispatcher d: position
    tasks,           \* the tasks channel of dispatcher d: 0 or a message
    tasksClosed,     \* number of close(tasks) executed by dispatcher d's fetchers
    \* Queue.work / Consumer.Run / Consumer.handle, one per dispatched message
    work,
    \* Consumer (the in-memory worker)
    capacity,        \* cap(s.taskQueue)
    taskQueue,       \* s.taskQueue contents
    tqClosed,        \* s.taskQueue closed
    stop,            \* s.stop closed
    wStopFlag,       \* s.stopFlag
    wBusy,           \* s.metric busy gauge
    wShutdowns,      \* number of Consumer.Shutdown calls made
    wRes,            \* what Consumer.Shutdown returned to caller c
    \* producer: the caller of Queue.Queue / Queue.QueueTask
    subPc, subRes, subCount, subAfter, enqueued,
    \* callers of Shutdown (and Wait)
    spc,
    \* caller of UpdateWorkerCount
    upc,             \* position in UpdateWorkerCount
    updates,         \* number of UpdateWorkerCount calls made
    lowered          \* the last UpdateWorkerCount stored a count below busy

vars == <<workerCount, busy, success, failure, submitted, stopFlag, stopOnce,
          quit, ready, starts, dpc, fpc, tasks, tasksClosed, work, capacity,
          taskQueue,
          tqClosed, stop, wStopFlag, wBusy, wShutdowns, wRes, subPc, subRes,
          subCount, subAfter, enqueued, spc, upc, updates, lowered>>

poolVars == <<workerCount, busy, success, failure, submitted, stopFlag,
              stopOnce, quit, ready>>
dispVars == <<starts, dpc, fpc, tasks, tasksClosed>>
workerVars == <<capacity, taskQueue, tqClosed, stop, wStopFlag, wBusy,
                wShutdowns, wRes>>
subVars == <<subPc, subRes, subCount, subAfter, enqueued>>
scaleVars == <<upc, updates, lowered>>

\* job.Timeout as Consumer.Run decodes it: 0, or a positive duration (1).
JobTimeouts == {0, 1}

\* A message that has not been dispatched to an execution goroutine.  Its
\* timeout is the positive one of the job options' default.
NoWork == [pc |-> "none", task |-> "idle", expired |-> FALSE,
           late |-> FALSE, cancelled |-> FALSE, res |-> "none",
           timeout |-> 1]

\* NewQueue with a worker count (WithWorkerCount) among counts; the jobs that
\* will be submitted carry a timeout among timeouts; loops are the dispatcher
\* loops that the Start calls may launch.
InitPool(counts, timeouts, loops) ==
    /\ workerCount \in counts
    /\ busy = 0 /\ success = 0 /\ failure = 0 /\ submitted = 0
    /\ stopFlag = 0 /\ stopOnce = "fresh" /\ quit = 0 /\ ready = 0
    /\ starts = 0
    /\ dpc = [d \in loops |-> "idle"]
    /\ fpc = [d \in loops |-> "none"]
    /\ tasks = [d \in loops |-> 0]
    /\ tasksClosed = [d \in loops |-> 0]
    /\ \E t \in [1..MaxSubmits -> timeouts] :
          work = [m \in Msgs |->
                    [NoWork EXCEPT !.timeout = IF m \in DOMAIN t
                                                 THEN t[m] ELSE 1]]
    /\ capacity \in 1..MaxCapacity
    /\ taskQueue = <<>> /\ tqClosed = FALSE /\ stop = FALSE
    /\ wStopFlag = 0 /\ wBusy = 0 /\ wShutdowns = 0
    /\ wRes = [c \in Callers |-> "none"]
    /\ subPc = "idle" /\ subRes = "none" /\ subCount = 0
    /\ subAfter = FALSE /\ enqueued = 0
    /\ spc = [c \in Callers |-> "idle"]
    /\ upc = "idle" /\ updates = 0 /\ lowered = FALSE

\* NewQueue with a worker count among counts; jobs with a positive timeout.
InitWith(counts) == InitPool(counts, {1}, Disps)

Init == InitWith(0..MaxWorkers)

\* Jobs whose timeout may be 0 (job.WithTimeout(0), or a payload that
\* carries no timeout) as well.
InitJob == InitPool(0..MaxWorkers, JobTimeouts, Disps)

\* A pool on which Start may be called more than once with effect.
InitMulti == InitPool(1..MaxWorkers, {1}, MultiDisps)

-----------------------------------------------------------------------------
\* Queue.schedule: the mutex is held from the check of busy against
\* workerCount to the non-blocking send on ready.

\* q.Lock() is held by the goroutine that is between check and send.
Locked ==
    \/ \E d \in DOMAIN dpc : dpc[d] = "send"
    \/ \E m \in Msgs : work[m].pc = "send"
    \/ upc = "send"

\* schedule's early return.
ScheduleFull == busy >= workerCount

\* select { case q.ready <- struct{}{}: default: }
ReadySend == IF ready = 0 THEN 1 ELSE ready

-----------------------------------------------------------------------------
\* Consumer.Queue and Consumer.Request on the buffered channel.

ChanSend(q, m) == Append(q, m)

\* A receive that hands out the newest message.
ChanRecvNewest(q) == q[Len(q)]

ChanRecv(q) == Head(q)

ChanRest(q) == Tail(q)

Usage == Len(taskQueue)

-----------------------------------------------------------------------------
\* Queue.Queue and Queue.QueueTask.  The two methods differ only in how the
\* message is built (job.NewMessage / job.NewTask); their checks, the call of
\* worker.Queue and the increment of submitted are the same statements, so
\* one producer stands for both.

\* Queue/QueueTask without the check of q.stopFlag.
QueueNeverStopped == FALSE

\* atomic.LoadInt32(&q.stopFlag) == 1
QueueStopped == stopFlag = 1

\* The call starts with the load of q.stopFlag; subAfter records whether a
\* Shutdown had already set the flag.
QueueBegin(limit) ==
    /\ subPc = "idle"
    /\ subCount < limit
    /\ subCount' = subCount + 1
    /\ subAfter' = (stopFlag = 1)
    /\ IF QueueStopped
         THEN /\ subRes' = "QueueShutdown"
              /\ subPc' = "idle"
         ELSE /\ subRes' = "none"
              /\ subPc' = "wq"
    /\ UNCHANGED <<poolVars, dispVars, work, workerVars, enqueued, spc,
                   scaleVars>>

\* Consumer.Queue: atomic.LoadInt32(&s.stopFlag) == 1
WorkerStopped == wStopFlag = 1

WorkerQueueCheck ==
    /\ subPc = "wq"
    /\ IF WorkerStopped
         THEN /\ subRes' = "QueueShutdown"
              /\ subPc' = "idle"
         ELSE /\ subRes' = "none"
              /\ subPc' = "send"
    /\ UNCHANGED <<poolVars, dispVars, work, workerVars, subCount, subAfter,
                   enqueued, spc,
                   scaleVars>>

\* A buffer that takes one message more than its capacity.
HasRoomOffByOne(q) == Len(q) <= capacity

\* The buffered channel has room for one more message.
HasRoom(q) == Len(q) < capacity

\* A Queue/QueueTask that ignores the error of worker.Queue: a refused
\* message goes on to IncSubmittedTask.
WorkerQueueSendErrorIgnored ==
    /\ subPc = "send"
    /\ IF tqClosed
         THEN /\ subRes' = "panic"
              /\ subPc' = "panicked"
              /\ UNCHANGED <<taskQueue, enqueued>>
         ELSE IF HasRoom(taskQueue)
                THEN /\ taskQueue' = ChanSend(taskQueue, enqueued + 1)
                     /\ enqueued' = enqueued + 1
                     /\ subRes' = "none"
                     /\ subPc' = "inc"
                ELSE /\ subRes' = "none"
                     /\ subPc' = "inc"
                     /\ UNCHANGED <<taskQueue, enqueued>>
    /\ UNCHANGED <<poolVars, dispVars, work, capacity, tqClosed, stop, wStopFlag,
                   wBusy, wShutdowns, wRes, subCount, subAfter, spc,
                   scaleVars>>

\* Consumer.Queue: select { case s.taskQueue <- task: default: }.  A send on
\* a closed channel panics in the producer's goroutine.  The message gets the
\* next identity, so identities are in the order of the successful sends.
WorkerQueueSend ==
    /\ subPc = "send"
    /\ IF tqClosed
         THEN /\ subRes' = "panic"
              /\ subPc' = "panicked"
              /\ UNCHANGED <<taskQueue, enqueued>>
         ELSE IF HasRoom(taskQueue)
                THEN /\ taskQueue' = ChanSend(taskQueue, enqueued + 1)
                     /\ enqueued' = enqueued + 1
                     /\ subRes' = "none"
                     /\ subPc' = "inc"
                ELSE /\ subRes' = "CapacityExceeded"
                     /\ subPc' = "idle"
                     /\ UNCHANGED <<taskQueue, enqueued>>
    /\ UNCHANGED <<poolVars, dispVars, work, capacity, tqClosed, stop, wStopFlag,
                   wBusy, wShutdowns, wRes, subCount, subAfter, spc,
                   scaleVars>>

\* q.metric.IncSubmittedTask(); return nil
QueueInc ==
    /\ subPc = "inc"
    /\ submitted' = submitted + 1
    /\ subRes' = "Ok"
    /\ subPc' = "idle"
    /\ UNCHANGED <<workerCount, busy, success, failure, stopFlag, stopOnce,
                   quit, ready, dispVars, work, workerVars, subCount, subAfter,
                   enqueued, spc,
                   scaleVars>>

-----------------------------------------------------------------------------
\* Queue.Shutdown, Queue.Wait (Release is Shutdown followed by Wait).

\* Shutdown without the compare-and-swap and without the Once.
ShutdownUnguarded(c) ==
    /\ spc[c] = "idle"
    /\ stopFlag' = 1
    /\ stopOnce' = "running"
    /\ spc' = [spc EXCEPT ![c] = "worker"]
    /\ UNCHANGED <<workerCount, busy, success, failure, submitted, quit, ready,
                   dispVars, work, workerVars, subVars,
                   scaleVars>>

\* atomic.CompareAndSwapInt32(&q.stopFlag, 0, 1), then q.stopOnce.Do: only
\* the caller that wins the swap reaches Do, and it finds the Once fresh.
ShutdownEnter(c) ==
    /\ spc[c] = "idle"
    /\ IF stopFlag = 0 /\ stopOnce = "fresh"
         THEN /\ stopFlag' = 1
              /\ stopOnce' = "running"
              /\ spc' = [spc EXCEPT ![c] = "worker"]
         ELSE /\ spc' = [spc EXCEPT ![c] = "returned"]
              /\ UNCHANGED <<stopFlag, stopOnce>>
    /\ UNCHANGED <<workerCount, busy, success, failure, submitted, quit, ready,
                   dispVars, work, workerVars, subVars,
                   scaleVars>>

\* A Consumer.Shutdown without the compare-and-swap: every call closes.
WorkerShutdownNoSwap(c) ==
    /\ spc[c] = "worker"
    /\ wShutdowns' = wShutdowns + 1
    /\ wStopFlag' = 1
    /\ spc' = [spc EXCEPT ![c] = "closeStop"]
    /\ UNCHANGED <<poolVars, dispVars, work, capacity, taskQueue, tqClosed, stop,
                   wBusy, wRes, subVars,
                   scaleVars>>

\* q.worker.Shutdown(), that is Consumer.Shutdown: the swap of s.stopFlag.
\* A failed swap returns ErrQueueShutdown (which Queue.Shutdown only logs).
WorkerShutdown(c) ==
    /\ spc[c] = "worker"
    /\ wShutdowns' = wShutdowns + 1
    /\ IF wStopFlag = 0
         THEN /\ wStopFlag' = 1
              /\ spc' = [spc EXCEPT ![c] = "closeStop"]
              /\ UNCHANGED wRes
         ELSE /\ spc' = [spc EXCEPT ![c] = "closeQuit"]
              /\ wRes' = [wRes EXCEPT ![c] = "QueueShutdown"]
              /\ UNCHANGED wStopFlag
    /\ UNCHANGED <<poolVars, dispVars, work, capacity, taskQueue, tqClosed, stop,
                   wBusy, subVars,
                   scaleVars>>

\* Consumer.Shutdown: close(s.stop)
CloseStop(c) ==
    /\ spc[c] = "closeStop"
    /\ stop' = TRUE
    /\ spc' = [spc EXCEPT ![c] = "closeTaskQueue"]
    /\ UNCHANGED <<poolVars, dispVars, work, capacity, taskQueue, tqClosed,
                   wStopFlag, wBusy, wShutdowns, wRes, subVars,
                   scaleVars>>

\* Consumer.Shutdown: close(s.taskQueue); return nil
CloseTaskQueue(c) ==
    /\ spc[c] = "closeTaskQueue"
    /\ tqClosed' = TRUE
    /\ wRes' = [wRes EXCEPT ![c] = "Ok"]
    /\ spc' = [spc EXCEPT ![c] = "closeQuit"]
    /\ UNCHANGED <<poolVars, dispVars, work, capacity, taskQueue, stop, wStopFlag,
                   wBusy, wShutdowns, subVars,
                   scaleVars>>

\* Queue.Shutdown: close(q.quit); the Once is done and Shutdown returns.
CloseQuit(c) ==
    /\ spc[c] = "closeQuit"
    /\ quit' = quit + 1
    /\ stopOnce' = "done"
    /\ spc' = [spc EXCEPT ![c] = "returned"]
    /\ UNCHANGED <<workerCount, busy, success, failure, submitted, stopFlag,
                   ready, dispVars, work, workerVars, subVars,
                   scaleVars>>

\* routineGroup: the goroutines started with q.routineGroup.Run that have
\* not returned.
Routines ==
    Cardinality({d \in DOMAIN dpc : dpc[d] \notin {"idle", "done"}})
    + Cardinality({d \in DOMAIN fpc : fpc[d] # "none"})
    + Cardinality({m \in Msgs : work[m].pc \notin {"none", "done"}})

\* Queue.Wait after Shutdown has returned: q.routineGroup.Wait().
Wait(c) ==
    /\ spc[c] = "returned"
    /\ Routines = 0
    /\ spc' = [spc EXCEPT ![c] = "waited"]
    /\ UNCHANGED <<poolVars, dispVars, work, workerVars, subVars,
                   scaleVars>>

-----------------------------------------------------------------------------
\* The Consumer called directly, without a pool in front of it: the caller of
\* Consumer.Queue is the producer, the callers of Consumer.Shutdown are the
\* callers c.

\* A call of Consumer.Queue begins (its first statement is the load of
\* s.stopFlag, WorkerQueueCheck).
EnqueueCall ==
    /\ subPc = "idle"
    /\ subCount < RunSubmits
    /\ subCount' = subCount + 1
    /\ subRes' = "none"
    /\ subPc' = "wq"
    /\ UNCHANGED <<poolVars, dispVars, work, workerVars, subAfter, enqueued, spc,
                   scaleVars>>

\* Consumer.Queue: return nil after the send.
EnqueueReturn ==
    /\ subPc = "inc"
    /\ subRes' = "Ok"
    /\ subPc' = "idle"
    /\ UNCHANGED <<poolVars, dispVars, work, workerVars, subCount, subAfter,
                   enqueued, spc,
                   scaleVars>>

\* A call of Consumer.Shutdown begins.
ConsumerShutdownCall(c) ==
    /\ spc[c] = "idle"
    /\ spc' = [spc EXCEPT ![c] = "worker"]
    /\ UNCHANGED <<poolVars, dispVars, work, workerVars, subVars,
                   scaleVars>>

\* Consumer.Shutdown has returned to its caller.
ConsumerShutdownReturn(c) ==
    /\ spc[c] = "closeQuit"
    /\ spc' = [spc EXCEPT ![c] = "returned"]
    /\ UNCHANGED <<poolVars, dispVars, work, workerVars, subVars,
                   scaleVars>>

-----------------------------------------------------------------------------
\* Queue.Start and the dispatcher loop Queue.start.

\* The dispatcher loops launched so far.
Spawned == Cardinality({d \in DOMAIN dpc : dpc[d] # "idle"})

\* A Start without the check of workerCount.
StartUnchecked ==
    /\ starts < MaxStartCalls
    /\ Spawned < Cardinality(DOMAIN dpc)
    /\ starts' = starts + 1
    /\ dpc' = [dpc EXCEPT ![Spawned + 1] = "sched"]
    /\ UNCHANGED <<poolVars, fpc, tasks, tasksClosed, work, workerVars,
                   subVars, spc, scaleVars>>

\* Start: no dispatcher is launched when workerCount is 0.
Start ==
    /\ starts < MaxStartCalls
    /\ workerCount # 0 => Spawned < Cardinality(DOMAIN dpc)
    /\ starts' = starts + 1
    /\ IF workerCount = 0
         THEN UNCHANGED dpc
         ELSE dpc' = [dpc EXCEPT ![Spawned + 1] = "sched"]
    /\ UNCHANGED <<poolVars, fpc, tasks, tasksClosed, work, workerVars,
                   subVars, spc,
                   scaleVars>>

\* start: q.schedule(), the locked check of busy against workerCount.
DispSchedule(d) ==
    /\ dpc[d] = "sched"
    /\ ~Locked
    /\ dpc' = [dpc EXCEPT ![d] = IF ScheduleFull THEN "wait" ELSE "send"]
    /\ UNCHANGED <<poolVars, starts, fpc, tasks, tasksClosed, work,
                   workerVars, subVars, spc,
                   scaleVars>>

\* start: q.schedule(), the non-blocking send on ready and the unlock.
DispSend(d) ==
    /\ dpc[d] = "send"
    /\ ready' = ReadySend
    /\ dpc' = [dpc EXCEPT ![d] = "wait"]
    /\ UNCHANGED <<workerCount, busy, success, failure, submitted, stopFlag,
                   stopOnce, quit, starts, fpc, tasks, tasksClosed, work,
                   workerVars, subVars, spc,
                   scaleVars>>

\* start: select case <-q.ready, then the fetch goroutine is started.
DispReady(d) ==
    /\ dpc[d] = "wait"
    /\ ready > 0
    /\ ready' = ready - 1
    /\ fpc' = [fpc EXCEPT ![d] = "request"]
    /\ dpc' = [dpc EXCEPT ![d] = "recv"]
    /\ UNCHANGED <<workerCount, busy, success, failure, submitted, stopFlag,
                   stopOnce, quit, starts, tasks, tasksClosed, work,
                   workerVars, subVars, spc,
                   scaleVars>>

\* start: select case <-q.quit: return.
DispQuit(d) ==
    /\ dpc[d] = "wait"
    /\ quit > 0
    /\ dpc' = [dpc EXCEPT ![d] = "done"]
    /\ UNCHANGED <<poolVars, starts, fpc, tasks, tasksClosed, work,
                   workerVars, subVars, spc,
                   scaleVars>>

\* Consumer.Request: a non-blocking receive.  A closed and drained channel
\* yields (nil, nil); an open and empty one the error "no message in queue",
\* which is not ErrNoTaskInQueue.
RequestResult ==
    IF Len(taskQueue) > 0 THEN "message"
    ELSE IF tqClosed THEN "nil" ELSE "error"

\* A fetch goroutine over a Request that hands out the oldest message and
\* leaves it in the buffer.
FetchRequestPeek(d) ==
    /\ fpc[d] = "request"
    /\ IF RequestResult = "message"
         THEN /\ tasks' = [tasks EXCEPT ![d] = ChanRecv(taskQueue)]
              /\ fpc' = [fpc EXCEPT ![d] = "none"]
              /\ UNCHANGED taskQueue
         ELSE /\ fpc' = [fpc EXCEPT ![d] = "poll"]
              /\ UNCHANGED <<tasks, taskQueue>>
    /\ UNCHANGED <<poolVars, starts, dpc, tasksClosed, work, capacity, tqClosed,
                   stop, wStopFlag, wBusy, wShutdowns, wRes, subVars, spc,
                   scaleVars>>

\* The fetch goroutine: t, err := q.worker.Request(); a message is sent on
\* tasks (which is empty: the dispatcher has received the previous one) and
\* the goroutine returns.
FetchRequest(d) ==
    /\ fpc[d] = "request"
    /\ IF RequestResult = "message"
         THEN /\ tasks' = [tasks EXCEPT ![d] = ChanRecv(taskQueue)]
              /\ taskQueue' = ChanRest(taskQueue)
              /\ fpc' = [fpc EXCEPT ![d] = "none"]
         ELSE /\ fpc' = [fpc EXCEPT ![d] = "poll"]
              /\ UNCHANGED <<tasks, taskQueue>>
    /\ UNCHANGED <<poolVars, starts, dpc, tasksClosed, work, capacity, tqClosed,
                   stop, wStopFlag, wBusy, wShutdowns, wRes, subVars, spc,
                   scaleVars>>

\* A fetch goroutine that takes every empty answer for ErrNoTaskInQueue and
\* so never closes tasks.
FetchPollForever(d) ==
    /\ fpc[d] = "poll"
    /\ fpc' = [fpc EXCEPT ![d] = "request"]
    /\ UNCHANGED <<poolVars, starts, dpc, tasks, tasksClosed, work, workerVars,
                   subVars, spc,
                   scaleVars>>

\* The fetch goroutine without a message: once quit is closed, an err that
\* is not ErrNoTaskInQueue (Consumer.Request never returns that one) closes
\* tasks and ends the goroutine, in the first select (err # nil, beside the
\* one-second sleep) or in the second; otherwise it asks again.
FetchPoll(d) ==
    /\ fpc[d] = "poll"
    /\ IF quit > 0
         THEN /\ tasksClosed' = [tasksClosed EXCEPT ![d] = @ + 1]
              /\ fpc' = [fpc EXCEPT ![d] = "none"]
         ELSE /\ fpc' = [fpc EXCEPT ![d] = "request"]
              /\ UNCHANGED tasksClosed
    /\ UNCHANGED <<poolVars, starts, dpc, tasks, work, workerVars, subVars,
                   spc,
                   scaleVars>>

\* What the Request of an arbitrary Worker can answer: a message, (nil, nil)
\* as emptyWorker does, an error, or the error ErrNoTaskInQueue.
RequestAnswers == {"message", "nil", "error", "empty"}

\* The fetch goroutine over an arbitrary Worker: t, err := q.worker.Request().
FetchRequestAny(d) ==
    /\ fpc[d] = "request"
    /\ \E a \in RequestAnswers :
          \/ /\ a = "message"
             /\ Len(taskQueue) > 0
             /\ tasks' = [tasks EXCEPT ![d] = ChanRecv(taskQueue)]
             /\ taskQueue' = ChanRest(taskQueue)
             /\ fpc' = [fpc EXCEPT ![d] = "none"]
          \/ /\ a \in {"nil", "error"}
             /\ fpc' = [fpc EXCEPT ![d] = "poll"]
             /\ UNCHANGED <<tasks, taskQueue>>
          \/ /\ a = "empty"
             /\ fpc' = [fpc EXCEPT ![d] = "pollEmpty"]
             /\ UNCHANGED <<tasks, taskQueue>>
    /\ UNCHANGED <<poolVars, starts, dpc, tasksClosed, work, capacity, tqClosed,
                   stop, wStopFlag, wBusy, wShutdowns, wRes, subVars, spc,
                   scaleVars>>

\* The fetch goroutine with err = ErrNoTaskInQueue: the first select takes
\* <-q.quit or the one-second timer, the second <-q.quit or default; under
\* <-q.quit the test !errors.Is(err, ErrNoTaskInQueue) fails, so tasks is not
\* closed and the loop asks again.
FetchPollEmpty(d) ==
    /\ fpc[d] = "pollEmpty"
    /\ fpc' = [fpc EXCEPT ![d] = "request"]
    /\ UNCHANGED <<poolVars, starts, dpc, tasks, tasksClosed, work, workerVars,
                   subVars, spc, scaleVars>>

\* A dispatcher that looks at quit before it starts the task and drops the
\* message it has received.
DispRecvDropsAfterQuit(d) ==
    /\ dpc[d] = "recv"
    /\ \/ /\ tasks[d] # 0
          /\ quit = 0
          /\ busy' = busy + 1
          /\ work' = [work EXCEPT ![tasks[d]].pc = "run"]
          /\ tasks' = [tasks EXCEPT ![d] = 0]
          /\ dpc' = [dpc EXCEPT ![d] = "sched"]
       \/ /\ tasks[d] # 0
          /\ quit > 0
          /\ tasks' = [tasks EXCEPT ![d] = 0]
          /\ dpc' = [dpc EXCEPT ![d] = "done"]
          /\ UNCHANGED <<busy, work>>
       \/ /\ tasks[d] = 0
          /\ tasksClosed[d] > 0
          /\ dpc' = [dpc EXCEPT ![d] = "done"]
          /\ UNCHANGED <<busy, work, tasks>>
    /\ UNCHANGED <<workerCount, success, failure, submitted, stopFlag,
                   stopOnce, quit, ready, starts, fpc, tasksClosed,
                   workerVars, subVars, spc, scaleVars>>

\* start: task, ok := <-tasks; on a message q.metric.IncBusyWorker() and the
\* execution goroutine q.work(task) is started; on a closed channel return.
DispRecv(d) ==
    /\ dpc[d] = "recv"
    /\ \/ /\ tasks[d] # 0
          /\ busy' = busy + 1
          /\ work' = [work EXCEPT ![tasks[d]].pc = "run"]
          /\ tasks' = [tasks EXCEPT ![d] = 0]
          /\ dpc' = [dpc EXCEPT ![d] = "sched"]
       \/ /\ tasks[d] = 0
          /\ tasksClosed[d] > 0
          /\ dpc' = [dpc EXCEPT ![d] = "done"]
          /\ UNCHANGED <<busy, work, tasks>>
    /\ UNCHANGED <<workerCount, success, failure, submitted, stopFlag,
                   stopOnce, quit, ready, starts, fpc, tasksClosed,
                   workerVars, subVars, spc,
                   scaleVars>>

-----------------------------------------------------------------------------
\* Queue.UpdateWorkerCount.

\* An UpdateWorkerCount that stores the count and does not call schedule.
UpdateWorkerCountNoNudge(n) ==
    /\ upc = "idle"
    /\ updates < MaxUpdates
    /\ updates' = updates + 1
    /\ workerCount' = n
    /\ lowered' = (n < busy)
    /\ upc' = "idle"
    /\ UNCHANGED <<busy, success, failure, submitted, stopFlag, stopOnce, quit,
                   ready, dispVars, work, workerVars, subVars, spc>>

\* q.workerCount = num: a plain store, made without the mutex.
UpdateWorkerCount(n) ==
    /\ upc = "idle"
    /\ updates < MaxUpdates
    /\ updates' = updates + 1
    /\ workerCount' = n
    /\ lowered' = (n < busy)
    /\ upc' = "sched"
    /\ UNCHANGED <<busy, success, failure, submitted, stopFlag, stopOnce, quit,
                   ready, dispVars, work, workerVars, subVars, spc>>

\* UpdateWorkerCount: q.schedule(), the locked check.
UpdateSchedule ==
    /\ upc = "sched"
    /\ ~Locked
    /\ upc' = IF ScheduleFull THEN "idle" ELSE "send"
    /\ UNCHANGED <<poolVars, dispVars, work, workerVars, subVars, spc, updates,
                   lowered>>

\* UpdateWorkerCount: schedule's send on ready and unlock; the call returns.
UpdateSend ==
    /\ upc = "send"
    /\ ready' = ReadySend
    /\ upc' = "idle"
    /\ UNCHANGED <<workerCount, busy, success, failure, submitted, stopFlag,
                   stopOnce, quit, dispVars, work, workerVars, subVars, spc,
                   updates, lowered>>

-----------------------------------------------------------------------------
\* Queue.work, Consumer.Run and Consumer.handle for message m.

\* A work whose busy decrement is not deferred: a panic skips it.
ReturnLeaksOnPanic(m, r, inHandle) ==
    /\ work' = [work EXCEPT ![m].pc = "sched", ![m].res = r,
                            ![m].expired = FALSE, ![m].late = FALSE]
    /\ busy' = IF r = "panic" THEN busy ELSE busy - 1
    /\ wBusy' = IF inHandle THEN wBusy - 1 ELSE wBusy

\* A handle whose decrement of the worker's gauge is not deferred: the
\* re-raised panic skips it.
ReturnKeepsGaugeOnPanic(m, r, inHandle) ==
    /\ work' = [work EXCEPT ![m].pc = "sched", ![m].res = r,
                            ![m].expired = FALSE, ![m].late = FALSE]
    /\ busy' = busy - 1
    /\ wBusy' = IF inHandle /\ r # "panic" THEN wBusy - 1 ELSE wBusy

\* The end of handle and of Run, and the first statement of work's deferred
\* block: s.decBusyWorker() (when handle was entered), q.metric.DecBusyWorker().
\* The recovered panic is res = "panic".
Return(m, r, inHandle) ==
    /\ work' = [work EXCEPT ![m].pc = "sched", ![m].res = r,
                            ![m].expired = FALSE, ![m].late = FALSE]
    /\ busy' = busy - 1
    /\ wBusy' = IF inHandle THEN wBusy - 1 ELSE wBusy

\* Consumer.Run: closed stop returns ErrQueueShutdown; otherwise handle is
\* entered: context.WithTimeout(ctx, job.Timeout), whose deadline has already
\* passed when job.Timeout is 0, s.incBusyWorker(), and the goroutine that
\* runs the task.
WorkRun(m) ==
    /\ work[m].pc = "run"
    /\ IF stop
         THEN Return(m, "QueueShutdown", FALSE)
         ELSE /\ work' = [work EXCEPT ![m].pc = "select", ![m].task = "running",
                                      ![m].expired = (work[m].timeout = 0)]
              /\ wBusy' = wBusy + 1
              /\ UNCHANGED busy
    /\ UNCHANGED <<workerCount, success, failure, submitted, stopFlag,
                   stopOnce, quit, ready, dispVars, capacity, taskQueue, tqClosed,
                   stop, wStopFlag, wShutdowns, wRes, subVars, spc,
                   scaleVars>>

\* What the task (job.Task or s.runFunc) can end with: nil, an error, a panic.
TaskOutcomes == {"ok", "error", "panic"}

\* The task's goroutine ends: done <- result, or panicChan <- p.  Nothing
\* stops the goroutine, so it may end after handle has returned.  late
\* records that the job's deadline had fired before the task ended.
TaskFinish(m, r) ==
    /\ work[m].task = "running"
    /\ work' = [work EXCEPT ![m].task = r,
                            ![m].late = work[m].expired]
    /\ UNCHANGED <<poolVars, dispVars, workerVars, subVars, spc,
                   scaleVars>>

\* The job's time budget (job.Timeout since startTime) runs out: the
\* context's deadline, and the time.After(leftTime) of the shutdown branch.
\* The deferred cancel() stops the timer when handle returns.
DeadlineFire(m) ==
    /\ work[m].pc \in {"select", "wait"}
    /\ ~work[m].expired
    /\ work' = [work EXCEPT ![m].expired = TRUE]
    /\ UNCHANGED <<poolVars, dispVars, workerVars, subVars, spc,
                   scaleVars>>

\* A handle that returns nil where the code returns ctx.Err().
HandleSelectSwallowsDeadline(m) ==
    /\ work[m].pc = "select"
    /\ \/ /\ work[m].task = "panic"
          /\ Return(m, "panic", TRUE)
       \/ /\ work[m].expired
          /\ Return(m, "ok", TRUE)
       \/ /\ work[m].task \in {"ok", "error"}
          /\ Return(m, work[m].task, TRUE)
       \/ /\ stop
          /\ work' = [work EXCEPT ![m].pc = "wait", ![m].cancelled = TRUE]
          /\ UNCHANGED <<busy, wBusy>>
    /\ UNCHANGED <<workerCount, success, failure, submitted, stopFlag,
                   stopOnce, quit, ready, dispVars, capacity, taskQueue, tqClosed,
                   stop, wStopFlag, wShutdowns, wRes, subVars, spc,
                   scaleVars>>

\* handle's select: any case that is ready may be chosen.
HandleSelect(m) ==
    /\ work[m].pc = "select"
    /\ \/ /\ work[m].task = "panic"
          /\ Return(m, "panic", TRUE)
       \/ /\ work[m].expired
          /\ Return(m, "Timeout", TRUE)
       \/ /\ work[m].task \in {"ok", "error"}
          /\ Return(m, work[m].task, TRUE)
       \/ /\ stop
          /\ work' = [work EXCEPT ![m].pc = "wait", ![m].cancelled = TRUE]
          /\ UNCHANGED <<busy, wBusy>>
    /\ UNCHANGED <<workerCount, success, failure, submitted, stopFlag,
                   stopOnce, quit, ready, dispVars, capacity, taskQueue, tqClosed,
                   stop, wStopFlag, wShutdowns, wRes, subVars, spc,
                   scaleVars>>

\* A shutdown branch that gives the job no time to finish.
HandleWaitNoGrace(m) ==
    /\ work[m].pc = "wait"
    /\ Return(m, "Timeout", TRUE)
    /\ UNCHANGED <<workerCount, success, failure, submitted, stopFlag,
                   stopOnce, quit, ready, dispVars, capacity, taskQueue, tqClosed,
                   stop, wStopFlag, wShutdowns, wRes, subVars, spc,
                   scaleVars>>

\* handle's select after case <-s.stop and cancel().
HandleWait(m) ==
    /\ work[m].pc = "wait"
    /\ \/ /\ work[m].expired
          /\ Return(m, "Timeout", TRUE)
       \/ /\ work[m].task \in {"ok", "error"}
          /\ Return(m, work[m].task, TRUE)
       \/ /\ work[m].task = "panic"
          /\ Return(m, "panic", TRUE)
    /\ UNCHANGED <<workerCount, success, failure, submitted, stopFlag,
                   stopOnce, quit, ready, dispVars, capacity, taskQueue, tqClosed,
                   stop, wStopFlag, wShutdowns, wRes, subVars, spc,
                   scaleVars>>

\* A deferred block that counts only the successes.
SettleSuccessOnly(m) ==
    /\ work' = [work EXCEPT ![m] = [NoWork EXCEPT !.pc = "done",
                                                   !.res = work[m].res,
                                                   !.timeout = work[m].timeout]]
    /\ IF work[m].res = "ok"
         THEN /\ success' = success + 1
              /\ UNCHANGED failure
         ELSE UNCHANGED <<success, failure>>

\* A deferred block that looks at err only: a recovered panic, which leaves
\* err nil, counts as a success.
SettleIgnoresPanic(m) ==
    /\ work' = [work EXCEPT ![m] = [NoWork EXCEPT !.pc = "done",
                                                   !.res = work[m].res,
                                                   !.timeout = work[m].timeout]]
    /\ IF work[m].res \in {"ok", "panic"}
         THEN /\ success' = success + 1
              /\ UNCHANGED failure
         ELSE /\ failure' = failure + 1
              /\ UNCHANGED success

\* work's deferred block after schedule(): err == nil && e == nil counts a
\* success, anything else a failure; the goroutine ends.
Settle(m) ==
    /\ work' = [work EXCEPT ![m] = [NoWork EXCEPT !.pc = "done",
                                                   !.res = work[m].res,
                                                   !.timeout = work[m].timeout]]
    /\ IF work[m].res = "ok"
         THEN /\ success' = success + 1
              /\ UNCHANGED failure
         ELSE /\ failure' = failure + 1
              /\ UNCHANGED success

\* work's deferred block: q.schedule(), the locked check; when schedule
\* returns early the counters follow.
WorkSchedule(m) ==
    /\ work[m].pc = "sched"
    /\ ~Locked
    /\ IF ScheduleFull
         THEN Settle(m)
         ELSE /\ work' = [work EXCEPT ![m].pc = "send"]
              /\ UNCHANGED <<success, failure>>
    /\ UNCHANGED <<workerCount, busy, submitted, stopFlag, stopOnce, quit,
                   ready, dispVars, workerVars, subVars, spc,
                   scaleVars>>

\* work's deferred block: schedule's send on ready and unlock, then the
\* counters.
WorkSend(m) ==
    /\ work[m].pc = "send"
    /\ ready' = ReadySend
    /\ Settle(m)
    /\ UNCHANGED <<workerCount, busy, submitted, stopFlag, stopOnce, quit,
                   dispVars, workerVars, subVars, spc,
                   scaleVars>>

-----------------------------------------------------------------------------
Next ==
    \/ QueueBegin(MaxSubmits)
    \/ WorkerQueueCheck
    \/ WorkerQueueSend
    \/ QueueInc
    \/ \E c \in Callers :
          \/ ShutdownEnter(c)
          \/ WorkerShutdown(c)
          \/ CloseStop(c)
          \/ CloseTaskQueue(c)
          \/ CloseQuit(c)
          \/ Wait(c)
    \/ Start
    \/ \E d \in Disps :
          \/ DispSchedule(d)
          \/ DispSend(d)
          \/ DispReady(d)
          \/ DispQuit(d)
          \/ FetchRequest(d)
          \/ FetchPoll(d)
          \/ DispRecv(d)
    \/ \E m \in Msgs :
          \/ WorkRun(m)
          \/ \E r \in TaskOutcomes : TaskFinish(m, r)
          \/ DeadlineFire(m)
          \/ HandleSelect(m)
          \/ HandleWait(m)
          \/ WorkSchedule(m)
          \/ WorkSend(m)

Spec == Init /\ [][Next]_vars

\* The pool of Spec with jobs of any timeout.
SpecJob == InitJob /\ [][Next]_vars

\* A pool that is never shut down and on which Start is called again: every
\* call launches one more dispatcher loop, each with its own tasks channel
\* and fetch goroutines, over the same worker.
NextMulti ==
    \/ QueueBegin(MaxSubmits)
    \/ WorkerQueueCheck
    \/ WorkerQueueSend
    \/ QueueInc
    \/ Start
    \/ \E d \in MultiDisps :
          \/ DispSchedule(d)
          \/ DispSend(d)
          \/ DispReady(d)
          \/ FetchRequest(d)
          \/ FetchPoll(d)
          \/ DispRecv(d)
    \/ \E m \in Msgs :
          \/ WorkRun(m)
          \/ \E r \in TaskOutcomes : TaskFinish(m, r)
          \/ DeadlineFire(m)
          \/ HandleSelect(m)
          \/ WorkSchedule(m)
          \/ WorkSend(m)

SpecMulti == InitMulti /\ [][NextMulti]_vars

\* A pool that is never shut down.
NextRun ==
    \/ QueueBegin(RunSubmits)
    \/ WorkerQueueCheck
    \/ WorkerQueueSend
    \/ QueueInc
    \/ Start
    \/ \E d \in Disps :
          \/ DispSchedule(d)
          \/ DispSend(d)
          \/ DispReady(d)
          \/ FetchRequest(d)
          \/ FetchPoll(d)
          \/ DispRecv(d)
    \/ \E m \in Msgs :
          \/ WorkRun(m)
          \/ \E r \in TaskOutcomes : TaskFinish(m, r)
          \/ DeadlineFire(m)
          \/ HandleSelect(m)
          \/ WorkSchedule(m)
          \/ WorkSend(m)

SpecRun == Init /\ [][NextRun]_vars

\* A pool that is never shut down and whose worker count is changed.
NextScale ==
    \/ QueueBegin(MaxSubmits)
    \/ WorkerQueueCheck
    \/ WorkerQueueSend
    \/ QueueInc
    \/ Start
    \/ \E n \in 0..ScaleWorkers : UpdateWorkerCount(n)
    \/ UpdateSchedule
    \/ UpdateSend
    \/ \E d \in Disps :
          \/ DispSchedule(d)
          \/ DispSend(d)
          \/ DispReady(d)
          \/ FetchRequest(d)
          \/ FetchPoll(d)
          \/ DispRecv(d)
    \/ \E m \in Msgs :
          \/ WorkRun(m)
          \/ \E r \in TaskOutcomes : TaskFinish(m, r)
          \/ DeadlineFire(m)
          \/ HandleSelect(m)
          \/ WorkSchedule(m)
          \/ WorkSend(m)

SpecScale == Init /\ [][NextScale]_vars

\* The same pool built with a count of up to ScaleWorkers, so that the count
\* can be lowered while more than one slot is in use.
SpecLower == InitWith(0..ScaleWorkers) /\ [][NextScale]_vars

\* Start is called only once Shutdown has returned.
StartLate == quit > 0 /\ Start

\* A pool that is started only after it has been shut down.
NextLate ==
    \/ QueueBegin(MaxSubmits)
    \/ WorkerQueueCheck
    \/ WorkerQueueSend
    \/ QueueInc
    \/ \E c \in Callers :
          \/ ShutdownEnter(c)
          \/ WorkerShutdown(c)
          \/ CloseStop(c)
          \/ CloseTaskQueue(c)
          \/ CloseQuit(c)
          \/ Wait(c)
    \/ StartLate
    \/ \E d \in Disps :
          \/ DispSchedule(d)
          \/ DispSend(d)
          \/ DispReady(d)
          \/ DispQuit(d)
          \/ FetchRequest(d)
          \/ FetchPoll(d)
          \/ DispRecv(d)
    \/ \E m \in Msgs :
          \/ WorkRun(m)
          \/ WorkSchedule(m)
          \/ WorkSend(m)

SpecLate == Init /\ [][NextLate]_vars

\* The pool over an arbitrary Worker.
NextFetch ==
    \/ QueueBegin(MaxSubmits)
    \/ WorkerQueueCheck
    \/ WorkerQueueSend
    \/ QueueInc
    \/ \E c \in Callers :
          \/ ShutdownEnter(c)
          \/ WorkerShutdown(c)
          \/ CloseStop(c)
          \/ CloseTaskQueue(c)
          \/ CloseQuit(c)
          \/ Wait(c)
    \/ Start
    \/ \E d \in Disps :
          \/ DispSchedule(d)
          \/ DispSend(d)
          \/ DispReady(d)
          \/ DispQuit(d)
          \/ FetchRequestAny(d)
          \/ FetchPoll(d)
          \/ FetchPollEmpty(d)
          \/ DispRecv(d)
    \/ \E m \in Msgs :
          \/ WorkRun(m)
          \/ \E r \in TaskOutcomes : TaskFinish(m, r)
          \/ DeadlineFire(m)
          \/ HandleSelect(m)
          \/ HandleWait(m)
          \/ WorkSchedule(m)
          \/ WorkSend(m)

SpecFetch == Init /\ [][NextFetch]_vars

\* The in-memory worker on its own.
NextWorker ==
    \/ EnqueueCall
    \/ WorkerQueueCheck
    \/ WorkerQueueSend
    \/ EnqueueReturn
    \/ \E c \in Callers :
          \/ ConsumerShutdownCall(c)
          \/ WorkerShutdown(c)
          \/ CloseStop(c)
          \/ CloseTaskQueue(c)
          \/ ConsumerShutdownReturn(c)

SpecWorker == Init /\ [][NextWorker]_vars

\* The goroutines and the timers make progress: Go's scheduler runs every
\* runnable goroutine, and a running timer fires.  The producer and the
\* callers of Start and Shutdown may stop calling at any time.
ShutdownStep == \E c \in Callers :
    WorkerShutdown(c) \/ CloseStop(c) \/ CloseTaskQueue(c) \/ CloseQuit(c)

DispStep == \E d \in Disps :
    DispSchedule(d) \/ DispSend(d) \/ DispReady(d) \/ DispQuit(d) \/ DispRecv(d)

FetchStep == \E d \in Disps : FetchRequest(d) \/ FetchPoll(d)

WorkStep == \E m \in Msgs :
    WorkRun(m) \/ HandleSelect(m) \/ HandleWait(m) \/ WorkSchedule(m) \/ WorkSend(m)

TimerStep == \E m \in Msgs : DeadlineFire(m)

FairSpec ==
    /\ Spec
    /\ WF_vars(ShutdownStep)
    /\ WF_vars(DispStep)
    /\ WF_vars(FetchStep)
    /\ WF_vars(WorkStep)
    /\ WF_vars(TimerStep)

UpdateStep == UpdateSchedule \/ UpdateSend

\* The pool that is not shut down, with every goroutine scheduled.  The
\* callers of Queue, Start and UpdateWorkerCount may stop calling; a task
\* may run as long as it likes and its timeout may be as long as it likes,
\* so nothing here relies on a running task coming to an end.
FairScale ==
    /\ SpecScale
    /\ WF_vars(DispStep)
    /\ WF_vars(FetchStep)
    /\ WF_vars(WorkStep)
    /\ WF_vars(UpdateStep)

FetchAnyStep == \E d \in Disps :
    FetchRequestAny(d) \/ FetchPoll(d) \/ FetchPollEmpty(d)

FairFetch ==
    /\ SpecFetch
    /\ WF_vars(ShutdownStep)
    /\ WF_vars(DispStep)
    /\ WF_vars(FetchAnyStep)
    /\ WF_vars(WorkStep)
    /\ WF_vars(TimerStep)

-----------------------------------------------------------------------------
\* The execution goroutines between IncBusyWorker and DecBusyWorker.
Running == {m \in Msgs : work[m].pc \in {"run", "select", "wait"}}

\* The messages Consumer.Request has handed out.
Dequeued == {m \in Msgs : work[m].pc # "none"} \cup ({tasks[d] : d \in DOMAIN tasks} \ {0})

\* C1: bounded concurrency.  For a pool started once whose worker count is
\* never changed, the busy gauge is at most workerCount in every reachable
\* state.
C1_BoundedConcurrency == starts <= 1 => busy <= workerCount

\* C2: post-shutdown rejection.  A Queue/QueueTask call that starts after
\* Shutdown has set the stop flag has returned ErrQueueShutdown in its first
\* step: it never reaches worker.Queue (nothing enters the buffer) nor
\* IncSubmittedTask (submitted is unchanged).
C2_PostShutdownRejection ==
    subAfter => (subPc = "idle" /\ subRes = "QueueShutdown")

C2_Witness ==
    /\ subAfter /\ subPc = "idle" /\ subRes = "QueueShutdown"
    /\ submitted = 1 /\ Len(taskQueue) = 1 /\ wStopFlag = 0

\* C3: Shutdown has a single effect.  However many callers, Worker.Shutdown
\* is invoked at most once and quit is closed at most once (a second close
\* would panic); once every call that was made has returned, each happened
\* exactly once.
C3_ShutdownOnce ==
    /\ wShutdowns <= 1
    /\ quit <= 1
    /\ ((\E c \in Callers : spc[c] # "idle")
        /\ (\A c \in Callers : spc[c] \in {"idle", "returned", "waited"}))
       => (wShutdowns = 1 /\ quit = 1)

C3_Witness ==
    /\ \A c \in Callers : spc[c] \in {"returned", "waited"}
    /\ wShutdowns = 1 /\ quit = 1

\* C4: Shutdown terminates.  Once Shutdown has been called, the call itself
\* completes and every dispatcher loop, fetch goroutine and execution
\* goroutine that was started ends, so that the routine group is empty and
\* Wait can return; no goroutine stays blocked.  (Every goroutine is
\* scheduled and a job's timeout elapses if its task does not return.)
C4_ShutdownTerminates ==
    (stopFlag = 1)
    ~> (/\ Routines = 0
        /\ quit = 1
        /\ \A c \in Callers : spc[c] \in {"idle", "returned", "waited"})

\* Wait has returned on a started pool that was shut down while a task was
\* running: the dispatcher has returned and the task's job timed out.
C4_Witness ==
    /\ \E c \in Callers : spc[c] = "waited"
    /\ starts = 1 /\ Routines = 0
    /\ \A d \in Disps : dpc[d] = "done"
    /\ \E m \in Msgs : work[m].pc = "done" /\ work[m].res = "Timeout"

\* C5: counter conservation.  When no Queue/QueueTask call is in progress
\* and Wait has returned after Shutdown (no goroutine of the routine group
\* is left), submitted = success + failure + the messages still in the
\* worker's buffer.
C5_Conservation ==
    ((\E c \in Callers : spc[c] = "waited") /\ Routines = 0 /\ subPc = "idle")
    => submitted = success + failure + Len(taskQueue)

C5_Witness ==
    /\ \E c \in Callers : spc[c] = "waited"
    /\ Routines = 0 /\ subPc = "idle"
    /\ Len(taskQueue) = 1 /\ success + failure = 1 /\ submitted = 2

\* C6: no slot leak on panic.  A dispatch raises busy by one; when the task
\* panics the panic is recovered in work's deferred block, which lowers busy
\* by one (back to the value before the dispatch) and then counts exactly
\* one failure and no success.
C6_NoSlotLeakOnPanic ==
    [][\A m \in Msgs :
         /\ (work[m].pc = "none" /\ work'[m].pc # "none")
            => busy' = busy + 1
         /\ (work[m].pc \in {"select", "wait"} /\ work'[m].res = "panic")
            => /\ work'[m].pc = "sched"
               /\ busy' = busy - 1
               /\ success' = success /\ failure' = failure
         /\ (work[m].res = "panic" /\ work[m].pc # "done" /\ work'[m].pc = "done")
            => /\ failure' = failure + 1
               /\ success' = success
               /\ busy' = busy]_vars

\* The first message panicked and was counted; the slot is free again and
\* the dispatcher has dispatched the next message.
C6_Witness ==
    /\ work[1].pc = "done" /\ work[1].res = "panic"
    /\ failure = 1 /\ success = 0
    /\ work[2].pc = "select" /\ busy = 1 /\ quit = 0

\* A Consumer.Queue call returns in this step.
EnqueueReturns == subPc \in {"wq", "send"} /\ subPc' \notin {"wq", "send"}

\* C7 as claimed: Usage is at most the capacity; an Enqueue made while the
\* buffer is full returns CapacityExceeded and leaves the buffer unchanged;
\* an Enqueue made with room, the worker not shut down, succeeds and raises
\* Usage by one.
C7_CapacityAsClaimed ==
    [][/\ Len(taskQueue') <= capacity
       /\ (EnqueueReturns /\ Len(taskQueue) = capacity)
          => (subRes' = "CapacityExceeded" /\ taskQueue' = taskQueue)
       /\ (EnqueueReturns /\ Len(taskQueue) < capacity /\ wStopFlag = 0)
          => (subPc' = "inc" /\ Len(taskQueue') = Len(taskQueue) + 1)]_vars

\* C7, amended: the same, with the full buffer's CapacityExceeded also
\* conditioned on the worker not being shut down (a shut-down worker
\* answers ErrQueueShutdown, full or not).
C7_CapacityRespected ==
    [][/\ Len(taskQueue') <= capacity
       /\ (EnqueueReturns /\ Len(taskQueue) = capacity /\ wStopFlag = 0)
          => (subRes' = "CapacityExceeded" /\ taskQueue' = taskQueue)
       /\ (EnqueueReturns /\ Len(taskQueue) < capacity /\ wStopFlag = 0)
          => (subPc' = "inc" /\ Len(taskQueue') = Len(taskQueue) + 1)]_vars

C7_Witness ==
    /\ subPc = "idle" /\ subRes = "CapacityExceeded"
    /\ Len(taskQueue) = capacity /\ wStopFlag = 0 /\ enqueued = capacity

\* handle returns from its first select in this step.
SelectReturns(m) == work[m].pc = "select" /\ work'[m].pc = "sched"

\* handle returns from the select of its shutdown branch in this step.
WaitReturns(m) == work[m].pc = "wait" /\ work'[m].pc = "sched"

\* The job's deadline fired before the task ended (or the task has not ended).
DeadlineFirst(m) ==
    work[m].expired /\ (work[m].task = "running" \/ work[m].late)

\* The task ended with a result before the job's deadline fired.
TaskFirst(m) == work[m].task \in {"ok", "error"} /\ ~work[m].late

\* C8 as claimed: if the deadline fires before the task has completed and
\* the worker is not shut down, handle returns Timeout and not the task's
\* own result (a task that panics is left aside).
C8_TimeoutAsClaimed ==
    [][\A m \in Msgs :
         (SelectReturns(m) /\ ~stop /\ DeadlineFirst(m)
          /\ work[m].task # "panic")
         => work'[m].res = "Timeout"]_vars

\* C8, amended: if, when handle's select chooses, the deadline has fired,
\* the task has not completed and the worker is not shut down, handle
\* returns Timeout, and the task goes on running; handle returns Timeout
\* only after the deadline has fired.  (A task that completes after the
\* deadline but before the select chooses may still have its own result
\* returned.)
C8_TimeoutEnforced ==
    [][\A m \in Msgs :
         /\ (SelectReturns(m) /\ ~stop /\ work[m].expired
             /\ work[m].task = "running")
            => (work'[m].res = "Timeout" /\ work'[m].task = "running")
         /\ (SelectReturns(m) /\ work'[m].res = "Timeout")
            => work[m].expired]_vars

C8_Witness ==
    \E m \in Msgs :
        /\ work[m].pc = "sched" /\ work[m].res = "Timeout"
        /\ ~work[m].cancelled /\ work[m].task = "running" /\ ~stop

\* C9 as claimed: after the shutdown branch has cancelled the job's
\* context, handle returns the task's own result if the task finishes
\* before the remaining budget runs out, and Timeout if the budget runs out
\* first.
C9_ShutdownAsClaimed ==
    [][\A m \in Msgs :
         /\ (WaitReturns(m) /\ TaskFirst(m)) => work'[m].res = work[m].task
         /\ (WaitReturns(m) /\ DeadlineFirst(m) /\ work[m].task # "panic")
            => work'[m].res = "Timeout"]_vars

\* C9, amended: the shutdown branch is entered only on a closed stop and
\* cancels the job's context before it waits; handle then returns the
\* task's own result only if the task has finished, and Timeout only if the
\* remaining budget has run out; when only one of the two has happened as
\* the select chooses, that one is returned.  (When both have happened,
\* either may be returned.)
C9_ShutdownDuringExecution ==
    [][\A m \in Msgs :
         /\ (work[m].pc = "select" /\ work'[m].pc = "wait")
            => (stop /\ work'[m].cancelled)
         /\ WaitReturns(m)
            => /\ work[m].cancelled
               /\ work'[m].res \in {"ok", "error"} => work'[m].res = work[m].task
               /\ work'[m].res = "Timeout" => work[m].expired
               /\ (work[m].task \in {"ok", "error"} /\ ~work[m].expired)
                  => work'[m].res = work[m].task
               /\ (work[m].expired /\ work[m].task = "running")
                  => work'[m].res = "Timeout"]_vars

C9_Witness ==
    \E m \in Msgs :
        /\ work[m].pc = "sched" /\ work[m].cancelled
        /\ work[m].res = "error" /\ work[m].task = "error"

\* C10: FIFO.  The buffer holds the newest accepted messages in the order
\* of their sends, and the messages Request has handed out are exactly the
\* oldest ones: every successful Request returned the oldest message that
\* was still in the buffer.
C10_Fifo ==
    LET n == Len(taskQueue) IN
    /\ taskQueue = [i \in 1..n |-> enqueued - n + i]
    /\ Dequeued = 1..(enqueued - n)

\* Two messages were in the buffer together, and the first was handed out.
C10_Witness ==
    /\ capacity >= 2 /\ enqueued = 2
    /\ taskQueue = <<2>>
    /\ \E d \in Disps : tasks[d] = 1
    /\ subCount = 2 /\ starts = 1 /\ submitted = 2 /\ dpc[1] = "recv"

\* C11: the worker's Shutdown is idempotent.  The call that wins the swap
\* closes stop and the buffer and returns nil, and it is the only one; every
\* other call returns ErrQueueShutdown and leaves the worker's flag, stop
\* signal and buffer as they are; a Consumer.Queue whose first statement runs
\* after a Shutdown has returned nil returns ErrQueueShutdown and sends
\* nothing.
C11_WorkerShutdownIdempotent ==
    [][/\ \A c \in Callers :
            /\ wRes'[c] = "Ok" => (wStopFlag' = 1 /\ stop' /\ tqClosed')
            /\ (wRes[c] = "none" /\ wRes'[c] = "Ok")
               => \A o \in Callers : wRes[o] # "Ok"
            /\ (spc[c] = "worker" /\ spc'[c] # "worker" /\ wStopFlag = 0)
               => spc'[c] = "closeStop"
            /\ (spc[c] = "worker" /\ spc'[c] # "worker" /\ wStopFlag = 1)
               => /\ wRes'[c] = "QueueShutdown"
                  /\ spc'[c] = "closeQuit"
                  /\ <<taskQueue, tqClosed, stop, wStopFlag, wBusy>>'
                     = <<taskQueue, tqClosed, stop, wStopFlag, wBusy>>
            /\ wRes[c] # "none" => wRes'[c] = wRes[c]
       /\ (subPc = "wq" /\ subPc' # "wq" /\ \E c \in Callers : wRes[c] = "Ok")
          => (subRes' = "QueueShutdown" /\ subPc' = "idle"
              /\ taskQueue' = taskQueue)]_vars

\* Both callers have returned, one with nil and one with ErrQueueShutdown,
\* and a Consumer.Queue made afterwards was refused while the buffer still
\* holds an earlier message.
C11_Witness ==
    /\ \E c \in Callers : wRes[c] = "Ok" /\ spc[c] = "returned"
    /\ \E c \in Callers : wRes[c] = "QueueShutdown" /\ spc[c] = "returned"
    /\ stop /\ tqClosed /\ wShutdowns = 2
    /\ subPc = "idle" /\ subRes = "QueueShutdown" /\ Len(taskQueue) = 1

\* C12: Start after shutdown is a no-op.  When every Start call is made
\* after Shutdown has returned, nothing is ever taken from the worker's
\* buffer, no task runs and busy, success and failure stay as they were (0).
C12_LateStartNoOp ==
    starts > 0 => (busy = 0 /\ success = 0 /\ failure = 0 /\ Dequeued = {})

\* C13: zero workers.  A Start made while workerCount is 0 launches no
\* dispatcher, and one made while it is not 0 launches one.  As long as no
\* dispatcher has been launched, also after UpdateWorkerCount has raised the
\* count, busy is 0, nothing is taken from the buffer and the routine group
\* is empty (Wait, and so Release, does not block), while Queue/QueueTask
\* still put their message into a buffer that has room.
C13_ZeroWorkers ==
    [][/\ (starts' = starts + 1 /\ workerCount = 0) => dpc' = dpc
       /\ (starts' = starts + 1 /\ workerCount # 0) => Spawned' = Spawned + 1
       /\ Spawned' = 0
          => /\ busy' = 0 /\ Dequeued' = {} /\ Routines' = 0
             /\ success' = 0 /\ failure' = 0
       /\ (Spawned = 0 /\ EnqueueReturns /\ Len(taskQueue) < capacity)
          => (subPc' = "inc" /\ Len(taskQueue') = Len(taskQueue) + 1)
       /\ (Spawned = 0 /\ subPc = "inc" /\ subPc' # "inc")
          => (subRes' = "Ok" /\ submitted' = submitted + 1)]_vars

\* Start was called with a count of 0; the count has since been raised and
\* schedule has put its token, and the accepted messages are still all in the
\* buffer.
C13_Witness ==
    /\ starts = 1 /\ Spawned = 0
    /\ updates > 0 /\ upc = "idle" /\ workerCount > 0 /\ ready = 1
    /\ submitted = MaxSubmits /\ Len(taskQueue) = MaxSubmits /\ busy = 0

\* A Queue/QueueTask call returns an error in this step.
SubmitFails ==
    /\ subCount' # subCount \/ subPc # "idle"
    /\ subPc' = "idle"
    /\ subRes' \in {"QueueShutdown", "CapacityExceeded"}

\* C14: submitted accounting.  submitted changes only by the increment that
\* ends a Queue/QueueTask call returning nil, by exactly 1, and that call's
\* worker.Queue has put its message into the buffer before; a call that
\* returns an error has sent nothing and leaves submitted, the other
\* counters and the buffer as they are.
C14_SubmittedAccounting ==
    [][/\ submitted' # submitted
          => /\ submitted' = submitted + 1
             /\ subPc = "inc" /\ subPc' = "idle" /\ subRes' = "Ok"
             /\ enqueued = submitted + 1
       /\ (subRes' = "Ok" /\ subPc # "idle" /\ subPc' = "idle")
          => submitted' = submitted + 1
       /\ SubmitFails
          => /\ <<submitted, success, failure, busy, taskQueue, enqueued>>'
                = <<submitted, success, failure, busy, taskQueue, enqueued>>
             /\ enqueued = submitted
       /\ enqueued' = submitted' + (IF subPc' = "inc" THEN 1 ELSE 0)]_vars

\* One call was accepted and counted, the next was refused for capacity.
C14_Witness ==
    /\ subCount = 2 /\ subPc = "idle" /\ subRes = "CapacityExceeded"
    /\ submitted = 1 /\ enqueued = 1 /\ taskQueue = <<1>>

\* The execution goroutines that have counted their message and ended.
Settled == {m \in Msgs : work[m].pc = "done"}

\* C15: exactly-one settlement.  success and failure change only in the
\* step in which one execution goroutine ends its deferred block, after
\* Worker.Run has returned or panicked: success rises by 1 if Run returned
\* nil without a panic, failure rises by 1 otherwise (an error, Timeout,
\* ErrQueueShutdown or a panic), and the other counter stays.  A settled
\* message is neither counted nor run again.
C15_ExactlyOneSettlement ==
    [][/\ \A m \in Msgs :
            /\ (work[m].pc # "done" /\ work'[m].pc = "done")
               => /\ work[m].pc \in {"sched", "send"}
                  /\ work[m].res # "none"
                  /\ work'[m].res = work[m].res
                  /\ IF work[m].res = "ok"
                       THEN success' = success + 1 /\ failure' = failure
                       ELSE failure' = failure + 1 /\ success' = success
            /\ work[m].pc = "done" => work'[m] = work[m]
       /\ (success' # success \/ failure' # failure)
          => Cardinality(Settled') = Cardinality(Settled) + 1
       /\ success' + failure' = Cardinality(Settled')]_vars

\* One job timed out and one was refused by the shut-down worker: two
\* failures, no success.
C15_Witness ==
    /\ work[1].pc = "done" /\ work[1].res = "Timeout"
    /\ work[2].pc = "done" /\ work[2].res = "QueueShutdown"
    /\ failure = 2 /\ success = 0

\* C16: fetch stops on quit.  Whatever the worker's Request answers, a fetch
\* goroutine that is running once quit is closed ends.
C16_FetchStopsOnQuit ==
    \A d \in Disps : (quit > 0 /\ fpc[d] # "none") ~> (fpc[d] = "none")

\* The messages handed to an execution goroutine so far.
Dispatched == {m \in Msgs : work[m].pc # "none"}

\* A dispatcher loop is running.
DispatcherRunning == \E d \in Disps : dpc[d] \notin {"idle", "done"}

\* C17: no lost wakeup.  On a pool that is not shut down, whenever a
\* dispatcher loop is running, busy is below workerCount and the buffer
\* holds a message, a further message is eventually dispatched (unless the
\* free slot is taken away again by a lower count), whether the slot was
\* freed by a finishing task or opened by UpdateWorkerCount, and without any
\* running task having to end.
C17_NoLostWakeup ==
    \A k \in 0..MaxSubmits :
        (/\ DispatcherRunning
         /\ busy < workerCount
         /\ Len(taskQueue) > 0
         /\ Cardinality(Dispatched) = k)
        ~> (Cardinality(Dispatched) > k \/ busy >= workerCount)

\* The count was raised while a task was running and the dispatcher was
\* blocked on ready; the second message was dispatched beside the first,
\* whose task is still running.
C17_Witness ==
    /\ updates > 0 /\ workerCount = 2 /\ busy = 2
    /\ work[1].pc = "select" /\ work[1].task = "running"
    /\ work[2].pc \in {"run", "select"}

\* C18: fetched work is still dispatched after quit.  A message that is on
\* tasks while quit is closed is eventually received by the dispatcher, and
\* every goroutine then comes to its end; a message leaves tasks only by
\* being handed to an execution goroutine (it is never dropped), Consumer.Run
\* called once quit is closed returns ErrQueueShutdown (the worker was shut
\* down before quit was closed), and the message is settled as a failure.
C18_FetchedWorkDispatched ==
    /\ [][\A m \in Msgs :
            /\ ((\E d \in Disps : tasks[d] = m /\ tasks'[d] # m))
               => (work[m].pc = "none" /\ work'[m].pc = "run"
                   /\ busy' = busy + 1)
            /\ (quit > 0 /\ work[m].pc = "run" /\ work'[m].pc # "run")
               => (work'[m].pc = "sched" /\ work'[m].res = "QueueShutdown")
            /\ (work[m].res = "QueueShutdown" /\ work[m].pc # "done"
                /\ work'[m].pc = "done")
               => (failure' = failure + 1 /\ success' = success)]_vars
    /\ (quit > 0 /\ \E d \in Disps : tasks[d] # 0)
       ~> ((\A d \in Disps : tasks[d] = 0) /\ Routines = 0)

\* The first message ran to its end; the second was refused by Consumer.Run
\* with ErrQueueShutdown and settled as a failure, the dispatcher has
\* returned and Wait has returned.
C18_Witness ==
    /\ quit > 0 /\ tqClosed
    /\ work[1].pc = "done" /\ work[1].res = "ok"
    /\ work[2].pc = "done" /\ work[2].res = "QueueShutdown"
    /\ success = 1 /\ failure = 1 /\ submitted = 2
    /\ \A d \in Disps : dpc[d] = "done" /\ tasks[d] = 0
    /\ \E c \in Callers : spc[c] = "waited"

\* C19: lowering the worker count.  The store of a count below busy leaves
\* busy and every execution goroutine as they are, and once the count has
\* been lowered below busy no further task is started while busy is at or
\* above the count: busy rises only from below workerCount.
C19_LoweringWorkerCount ==
    [][/\ updates' # updates => (work' = work /\ busy' = busy)
       /\ (lowered /\ busy' > busy) => busy < workerCount]_vars

\* The handle calls in progress.
InHandle == {m \in Msgs : work[m].pc \in {"select", "wait"}}

\* C20: the worker's busy gauge.  It equals the number of handle calls in
\* progress (so it is never negative and is 0 when no job is executing);
\* entering handle raises it by one, and leaving handle lowers it by one on
\* every exit path: the task's result, the timeout, the shutdown branch and
\* the re-raised panic.
C20_WorkerBusyGauge ==
    [][/\ wBusy' = Cardinality(InHandle')
       /\ \A m \in Msgs :
            /\ (m \notin InHandle /\ m \in InHandle')
               => (work[m].pc = "run" /\ wBusy' = wBusy + 1)
            /\ (m \in InHandle /\ m \notin InHandle')
               => /\ wBusy' = wBusy - 1
                  /\ work'[m].res \in {"ok", "error", "Timeout", "panic"}]_vars

\* A handle call has left through its shutdown branch with the task's panic
\* re-raised, and the gauge is back at 0.
C20_Witness ==
    /\ wBusy = 0
    /\ \E m \in Msgs :
          /\ work[m].pc = "sched" /\ work[m].cancelled
          /\ work[m].res = "panic"

-----------------------------------------------------------------------------
\* C21 (unset timeout): a job whose timeout is 0 does not run under a zero
\* deadline: Run does not return Timeout for it, and when its task has
\* completed handle returns the task's own result.
C21_UnsetTimeout ==
    [][\A m \in Msgs :
         (/\ work[m].timeout = 0
          /\ work[m].pc \in {"select", "wait"}
          /\ work'[m].pc = "sched")
           => /\ work'[m].res # "Timeout"
              /\ work[m].task \in {"ok", "error"}
                    => work'[m].res = work[m].task]_vars

\* C22 (Enqueue/Shutdown race freedom): Consumer.Queue never sends into the
\* buffer after Consumer.Shutdown has closed it: the call of a producer that
\* runs concurrently with a shutdown enqueues its message before the close
\* or returns QueueShutdown, and never panics.
C22_EnqueueShutdownRaceFree ==
    /\ subPc # "panicked"
    /\ subRes # "panic"

\* C23 (hand-off channel safety): the tasks channel of a dispatcher loop is
\* closed at most once, no fetch goroutine sends a message on it after it
\* has been closed, and once quit is closed the dispatcher that is blocked on
\* <-tasks eventually receives a message or the close.
C23_HandOffChannelSafety ==
    /\ [](\A d \in Disps : tasksClosed[d] <= 1)
    /\ [][\A d \in Disps :
            tasksClosed[d] > 0 => tasks'[d] \in {tasks[d], 0}]_vars
    /\ \A d \in Disps :
          (dpc[d] = "recv" /\ quit > 0) ~> (dpc[d] # "recv")

\* C24 (counters never ahead of submissions): with every message entering
\* through Queue/QueueTask, success + failure + busy <= submitted in every
\* state, the states between a successful worker.Queue and IncSubmittedTask
\* included.
C24_CountersNotAhead == success + failure + busy <= submitted

\* The places message m is in: the worker's buffer, the tasks channel of a
\* dispatcher loop, an execution goroutine (running or finished).
Places(m) ==
    Cardinality({i \in 1..Len(taskQueue) : taskQueue[i] = m})
    + Cardinality({d \in DOMAIN tasks : tasks[d] = m})
    + (IF work[m].pc # "none" THEN 1 ELSE 0)

\* C25 (at-most-once execution): every message accepted by Consumer.Queue is
\* handed out by Request at most once and passed to Run at most once, also
\* with several dispatcher loops and fetch goroutines: an accepted message
\* is in exactly one place, and an execution goroutine is started only for a
\* message that has had none.
C25_AtMostOnce ==
    /\ [](\A m \in Msgs : Places(m) = IF m <= enqueued THEN 1 ELSE 0)
    /\ [][\A m \in Msgs :
            (work'[m].pc = "run" /\ work[m].pc # "run") => work[m].pc = "none"]_vars

\* Two dispatcher loops whose fetch goroutines have each delivered a message
\* that has not been received yet.
C25_Witness ==
    /\ starts = 2
    /\ \A d \in MultiDisps : dpc[d] = "recv" /\ fpc[d] = "none"
    /\ tasks[1] # 0 /\ tasks[2] # 0
====
